---- MODULE Spec2Model ----
(***************************************************************************)
(* HIIT timer (src/app.js): the phase sequencer, the timestamp-based tick  *)
(* loop and the start / pause / reset controls, as a state machine.        *)
(*                                                                         *)
(* Time is in milliseconds, as Date.now() gives it.  A handler runs at one *)
(* instant: every Date.now() read inside one handler returns `now`.        *)
(***************************************************************************)
EXTENDS Integers, Sequences, FiniteSets, TLC

VARIABLES
    now,            \* the wall clock, Date.now()
    form,           \* the nine form fields (el*.value / el*.checked)
    timerId,        \* 0 is null, 1 a handle returned by setInterval
    intervals,      \* the number of live interval timers of the page
    running,
    paused,
    phaseEndAt,
    phase,
    totalRounds,
    currentRound,
    remaining,
    phaseDuration,
    cfgRun,         \* the frozen config, Null when there is none
    cues,           \* the cue calls (signal / signalStrong) of the last handler
    alertMsg,       \* the text alert() showed in the last handler, "" if none
    op,             \* history: the last handler that ran and the branch it took
    entered,        \* history: the phases enterPhase() entered in this run
    sincePause,     \* history: what came between the latest pause and now (or
                    \* the resume that ended it): "clock", "handler"
    stored,         \* localStorage[STORAGE_KEY]: the saved config, Null if none
    warned,         \* history: the values of remaining at which signal() was
                    \* called during the current phase
    owed            \* history: the un-paused milliseconds the current phase
                    \* has still to last to reach its configured duration

vars == << now, form, timerId, intervals, running, paused, phaseEndAt, phase,
           totalRounds, currentRound, remaining, phaseDuration, cfgRun,
           cues, alertMsg, op, entered, sincePause, stored, warned, owed >>

----------------------------------------------------------------------------
(* Program constants *)

MsPerSec == 1000
TickMs == 250
WarnWindow == 3
DefaultRounds == 20
DefaultWork == 40
DefaultRest1 == 20

(* Bounds of the model *)

MaxTicks == 20

MaxNow == MaxTicks * TickMs

(* The clock advances between two handlers by two tick intervals or by a  *)
(* second (a browser delivers the callbacks of an interval late as often  *)
(* as on time); several advances in a row make a long delay (a throttled  *)
(* or backgrounded tab).                                                  *)
ClockSteps == { 2 * TickMs, MsPerSec }

----------------------------------------------------------------------------
(* The form.  A numeric field holds a string: <<n>> is the string that     *)
(* parseInt reads as n, <<>> a string parseInt reads as NaN (empty).       *)

Null == [null |-> TRUE]

Num(n) == << n >>
Blank == << >>

BaseForm ==
    [ warmup |-> Num(0), rounds |-> Num(3), work |-> Num(1), rest1 |-> Num(1),
      rest2 |-> Num(1), rest2Every |-> Num(2), cooldown |-> Num(0),
      sound |-> TRUE, vibrate |-> FALSE ]

(* Valid forms: rest 1 and rest 2 alternating; warm-up, cooldown and no    *)
(* rest at all; a long rest after every round; an empty warm-up field.     *)
ValidForms ==
    { BaseForm,
      [BaseForm EXCEPT !.warmup = Num(1), !.rounds = Num(2), !.rest1 = Num(0),
                       !.rest2 = Num(0), !.cooldown = Num(1),
                       !.sound = FALSE, !.vibrate = TRUE],
      [BaseForm EXCEPT !.rounds = Num(2), !.work = Num(2), !.rest2Every = Num(1),
                       !.cooldown = Num(1)],
      [BaseForm EXCEPT !.warmup = Blank, !.rounds = Num(2), !.rest2 = Num(0),
                       !.rest2Every = Num(0), !.sound = FALSE] }

(* Invalid forms: one field out of range, and several at once.             *)
InvalidForms ==
    { [BaseForm EXCEPT !.rounds = Num(0)],
      [BaseForm EXCEPT !.rounds = Num(0), !.work = Num(0), !.rest1 = Num(-1)],
      [BaseForm EXCEPT !.work = Num(0), !.rest2Every = Num(-1)],
      [BaseForm EXCEPT !.cooldown = Num(-1), !.rest2Every = Num(-1)],
      [BaseForm EXCEPT !.rest2Every = Num(-1)] }

FormValues == ValidForms \cup InvalidForms

----------------------------------------------------------------------------
(* Config helpers *)

ToInt(v, fallback) == IF Len(v) = 1 THEN v[1] ELSE fallback

FormValue(f) ==
    [ warmup |-> ToInt(f.warmup, 0),
      rounds |-> ToInt(f.rounds, DefaultRounds),
      work |-> ToInt(f.work, DefaultWork),
      rest1 |-> ToInt(f.rest1, DefaultRest1),
      rest2 |-> ToInt(f.rest2, 0),
      rest2Every |-> ToInt(f.rest2Every, 0),
      cooldown |-> ToInt(f.cooldown, 0),
      sound |-> f.sound,
      vibrate |-> f.vibrate ]

ErrRounds == "Rounds deve ser >= 1"
ErrWork == "Trabalho deve ser >= 1"
ErrNegative == "Tempos nao podem ser negativos."
ErrRest2Every == "rest2Every nao pode ser negativo."

(* Fault: rounds is not validated *)
Validate_noRoundsCheck(value) ==
    IF value.work < 1 THEN ErrWork
    ELSE IF value.warmup < 0 \/ value.rest1 < 0 \/ value.rest2 < 0 \/ value.cooldown < 0
         THEN ErrNegative
    ELSE IF value.rest2Every < 0 THEN ErrRest2Every
    ELSE ""

(* Fault: work is validated before rounds *)
Validate_workFirst(value) ==
    IF value.work < 1 THEN ErrWork
    ELSE IF value.rounds < 1 THEN ErrRounds
    ELSE IF value.warmup < 0 \/ value.rest1 < 0 \/ value.rest2 < 0 \/ value.cooldown < 0
         THEN ErrNegative
    ELSE IF value.rest2Every < 0 THEN ErrRest2Every
    ELSE ""

Validate(value) ==
    IF value.rounds < 1 THEN ErrRounds
    ELSE IF value.work < 1 THEN ErrWork
    ELSE IF value.warmup < 0 \/ value.rest1 < 0 \/ value.rest2 < 0 \/ value.cooldown < 0
         THEN ErrNegative
    ELSE IF value.rest2Every < 0 THEN ErrRest2Every
    ELSE ""

(* { ok, error } or { ok, value }: a missing member is Null / "".          *)
ReadConfigFromUI(f) ==
    LET value == FormValue(f)
        error == Validate(value)
    IN  IF error # ""
        THEN [ ok |-> FALSE, error |-> error, value |-> Null ]
        ELSE [ ok |-> TRUE, error |-> "", value |-> value ]

----------------------------------------------------------------------------
(* The session as one value, so that the functions of app.js compose.      *)

Session ==
    [ timerId |-> timerId, intervals |-> intervals, running |-> running,
      paused |-> paused, phaseEndAt |-> phaseEndAt, phase |-> phase,
      totalRounds |-> totalRounds, currentRound |-> currentRound,
      remaining |-> remaining, phaseDuration |-> phaseDuration,
      cfgRun |-> cfgRun, cues |-> << >>, entered |-> entered,
      warned |-> warned, owed |-> owed ]

Max(a, b) == IF a >= b THEN a ELSE b

(* Math.ceil(ms / 1000) of an integer number of milliseconds *)
CeilSeconds(ms) ==
    IF ms >= 0 THEN (ms + MsPerSec - 1) \div MsPerSec ELSE -((-ms) \div MsPerSec)

(* Fault: the remaining time without Math.max(0, ...) *)
RemainingAt_noClamp(endAt, t) == CeilSeconds(endAt - t)

RemainingAt(endAt, t) == Max(0, CeilSeconds(endAt - t))

(* Fault: the form is read whenever it is valid, also during a run *)
GetCfg_live(s, f) ==
    IF ReadConfigFromUI(f).ok THEN ReadConfigFromUI(f).value ELSE s.cfgRun

GetCfg(s, f) ==
    IF s.running /\ s.cfgRun # Null THEN s.cfgRun ELSE ReadConfigFromUI(f).value

ApplyConfig(s, cfg) == [s EXCEPT !.totalRounds = cfg.rounds]

Cue(kind, cfg) == [ kind |-> kind, sound |-> cfg.sound, vibrate |-> cfg.vibrate ]

Signal(s, f) ==
    [s EXCEPT !.cues = Append(@, Cue("warn", GetCfg(s, f))),
              !.warned = Append(@, s.remaining)]

SignalStrong(s, f) == [s EXCEPT !.cues = Append(@, Cue("transition", GetCfg(s, f)))]

ClearInterval(s) ==
    [s EXCEPT !.intervals = IF s.timerId # 0 THEN @ - 1 ELSE @]

SetInterval(s) == [s EXCEPT !.intervals = @ + 1, !.timerId = 1]

StopTimer(s) == [ClearInterval(s) EXCEPT !.timerId = 0, !.paused = FALSE]

SyncRemainingFromClock(s, t) ==
    IF s.phase = "IDLE" \/ s.phase = "DONE"
    THEN [s EXCEPT !.remaining = 0]
    ELSE [s EXCEPT !.remaining = RemainingAt(s.phaseEndAt, t)]

(* remaining = d; phaseDuration = remaining; phaseEndAt = Date.now() + remaining * 1000 *)
BeginTimed(s, d, t) ==
    [s EXCEPT !.remaining = d, !.phaseDuration = d, !.phaseEndAt = t + d * MsPerSec,
              !.owed = d * MsPerSec]

(* Fault: the WORK branch without currentRound += 1 *)
EnterWork_noIncrement(s, f, t) ==
    SignalStrong(BeginTimed(s, GetCfg(s, f).work, t), f)

(* Fault: the WORK branch without signalStrong() *)
EnterWork_noCue(s, f, t) ==
    LET s1 == [s EXCEPT !.currentRound = @ + 1]
    IN  BeginTimed(s1, GetCfg(s1, f).work, t)

(* enterPhase(), the WORK branch *)
EnterWork(s, f, t) ==
    LET s1 == [s EXCEPT !.currentRound = @ + 1]
    IN  SignalStrong(BeginTimed(s1, GetCfg(s1, f).work, t), f)

(* Fault: the DONE branch without running = false *)
EnterDone_keepsRunning(s, f) ==
    LET s1 == [s EXCEPT !.remaining = 0, !.phaseDuration = 0, !.phaseEndAt = 0,
                        !.owed = 0]
    IN  StopTimer(SignalStrong(s1, f))

(* enterPhase(), the DONE branch *)
EnterDone(s, f) ==
    LET s1 == [s EXCEPT !.remaining = 0, !.phaseDuration = 0, !.phaseEndAt = 0,
                        !.owed = 0]
        s2 == StopTimer(SignalStrong(s1, f))
    IN  [s2 EXCEPT !.running = FALSE, !.paused = FALSE]

EnterPhase(s, newPhase, f, t) ==
    LET s1 == [s EXCEPT !.phase = newPhase, !.entered = Append(@, newPhase),
                        !.warned = << >>]
    IN  CASE newPhase = "WORK" -> EnterWork(s1, f, t)
          [] newPhase = "WARMUP" ->
               SignalStrong(BeginTimed(s1, GetCfg(s1, f).warmup, t), f)
          [] newPhase = "REST1" ->
               SignalStrong(BeginTimed(s1, GetCfg(s1, f).rest1, t), f)
          [] newPhase = "REST2" ->
               SignalStrong(BeginTimed(s1, GetCfg(s1, f).rest2, t), f)
          [] newPhase = "COOLDOWN" ->
               SignalStrong(BeginTimed(s1, GetCfg(s1, f).cooldown, t), f)
          [] newPhase = "DONE" -> EnterDone(s1, f)
          [] OTHER -> s1

ShouldRest2(cfg, round) ==
    cfg.rest2 > 0 /\ cfg.rest2Every > 0 /\ round % cfg.rest2Every = 0

(* Fault: currentRound > totalRounds for currentRound >= totalRounds *)
AfterWork_offByOne(s, f) ==
    IF s.currentRound > s.totalRounds
    THEN IF GetCfg(s, f).cooldown > 0 THEN "COOLDOWN" ELSE "DONE"
    ELSE LET cfg == GetCfg(s, f)
         IN  IF ShouldRest2(cfg, s.currentRound) THEN "REST2"
             ELSE IF cfg.rest1 > 0 THEN "REST1"
             ELSE "WORK"

(* Fault: the short rest tested before the long rest *)
AfterWork_rest1First(s, f) ==
    IF s.currentRound >= s.totalRounds
    THEN IF GetCfg(s, f).cooldown > 0 THEN "COOLDOWN" ELSE "DONE"
    ELSE LET cfg == GetCfg(s, f)
         IN  IF cfg.rest1 > 0 THEN "REST1"
             ELSE IF ShouldRest2(cfg, s.currentRound) THEN "REST2"
             ELSE "WORK"

(* The phase nextPhase() chooses after a WORK phase *)
AfterWork(s, f) ==
    IF s.currentRound >= s.totalRounds
    THEN IF GetCfg(s, f).cooldown > 0 THEN "COOLDOWN" ELSE "DONE"
    ELSE LET cfg == GetCfg(s, f)
         IN  IF ShouldRest2(cfg, s.currentRound) THEN "REST2"
             ELSE IF cfg.rest1 > 0 THEN "REST1"
             ELSE "WORK"

(* buildNextText(), with the accents of its texts dropped *)
BuildNextText(s, f) ==
    LET cfg == GetCfg(s, f)
    IN  CASE s.phase = "WARMUP" -> "Proximo: Trabalho (round 1)."
          [] s.phase = "WORK" ->
               IF s.currentRound >= s.totalRounds
               THEN IF cfg.cooldown > 0 THEN "Proximo: Termino / Cooldown."
                    ELSE "Proximo: Finalizar."
               ELSE IF cfg.rest2 > 0 /\ cfg.rest2Every > 0
                       /\ s.currentRound % cfg.rest2Every = 0
                    THEN "Proximo: Intervalo longo (" \o ToString(cfg.rest2) \o "s)."
                    ELSE IF cfg.rest1 > 0
                         THEN "Proximo: Intervalo curto (" \o ToString(cfg.rest1) \o "s)."
                         ELSE "Proximo: Trabalho (round "
                                  \o ToString(s.currentRound + 1) \o ")."
          [] s.phase = "REST1" \/ s.phase = "REST2" ->
               "Proximo: Trabalho (round " \o ToString(s.currentRound + 1) \o ")."
          [] s.phase = "COOLDOWN" -> "Proximo: Finalizar."
          [] s.phase = "DONE" -> "Treino concluido."
          [] OTHER -> "Pronto para iniciar."

NextPhase(s, f, t) ==
    CASE s.phase = "WARMUP" -> EnterPhase(s, "WORK", f, t)
      [] s.phase = "WORK" -> EnterPhase(s, AfterWork(s, f), f, t)
      [] s.phase = "REST1" \/ s.phase = "REST2" -> EnterPhase(s, "WORK", f, t)
      [] s.phase = "COOLDOWN" -> EnterPhase(s, "DONE", f, t)
      [] s.phase = "DONE" ->
           [StopTimer(s) EXCEPT !.running = FALSE, !.paused = FALSE]
      [] OTHER -> s

(* while (remaining <= 0 && running && !paused) { nextPhase(); ... } *)
RECURSIVE CatchUp(_, _, _)
CatchUp(s, f, t) ==
    IF s.remaining <= 0 /\ s.running /\ ~s.paused
    THEN LET n == NextPhase(s, f, t)
         IN  IF n.phase = "DONE" THEN n
             ELSE CatchUp(SyncRemainingFromClock(n, t), f, t)
    ELSE s

(* Fault: the warn cue without the test remaining !== prev *)
TickCallback_warnEveryTick(s, f, t) ==
    IF ~s.running \/ s.paused THEN s
    ELSE LET s1 == SyncRemainingFromClock(s, t)
             s2 == IF s1.remaining > 0 /\ s1.remaining <= WarnWindow
                   THEN Signal(s1, f) ELSE s1
         IN  CatchUp(s2, f, t)

(* Fault: the callback without its first line, if (!running || paused) return *)
TickCallback_noGuard(s, f, t) ==
    LET prev == s.remaining
        s1 == SyncRemainingFromClock(s, t)
        s2 == IF s1.remaining > 0 /\ s1.remaining <= WarnWindow
                 /\ s1.remaining # prev
              THEN Signal(s1, f) ELSE s1
    IN  CatchUp(s2, f, t)

(* The body of the setInterval callback *)
TickCallback(s, f, t) ==
    IF ~s.running \/ s.paused THEN s
    ELSE LET prev == s.remaining
             s1 == SyncRemainingFromClock(s, t)
             s2 == IF s1.remaining > 0 /\ s1.remaining <= WarnWindow
                      /\ s1.remaining # prev
                   THEN Signal(s1, f) ELSE s1
         IN  CatchUp(s2, f, t)

TickLoop(s, t) ==
    LET s1 == SyncRemainingFromClock(s, t)
        s2 == IF s1.timerId # 0 THEN ClearInterval(s1) ELSE s1
    IN  SetInterval(s2)

(* Fault: the warm-up entered also when it lasts 0 seconds *)
FirstPhase_alwaysWarmup(cfg) == "WARMUP"

FirstPhase(cfg) == IF cfg.warmup > 0 THEN "WARMUP" ELSE "WORK"

(* start(), once the config is read and valid *)
StartRun(s, cfg, f, t) ==
    LET s1 == ApplyConfig([s EXCEPT !.cfgRun = cfg], cfg)
        s2 == [s1 EXCEPT !.phase = FirstPhase(s1.cfgRun), !.currentRound = 0,
                         !.paused = FALSE, !.entered = << >>]
        s3 == EnterPhase(s2, s2.phase, f, t)
        s4 == [s3 EXCEPT !.running = TRUE]
    IN  TickLoop(s4, t)

(* Fault: the pause branch leaves the interval running *)
PauseRun_keepsTimer(s, t) ==
    LET s1 == [s EXCEPT !.paused = TRUE]
    IN  [s1 EXCEPT !.remaining = RemainingAt(s1.phaseEndAt, t)]

(* togglePause(), the pause branch *)
PauseRun(s, t) ==
    LET s1 == [s EXCEPT !.paused = TRUE]
        s2 == IF s1.timerId # 0
              THEN [ClearInterval(s1) EXCEPT !.timerId = 0] ELSE s1
    IN  [s2 EXCEPT !.remaining = RemainingAt(s2.phaseEndAt, t)]

(* Fault: the resume branch keeps the phaseEndAt of before the pause *)
ResumeRun_keepEndAt(s, t) == TickLoop([s EXCEPT !.paused = FALSE], t)

(* Fault: the resume branch does not restart the tick loop *)
ResumeRun_noTickLoop(s, t) ==
    LET s1 == [s EXCEPT !.paused = FALSE]
    IN  [s1 EXCEPT !.phaseEndAt = t + s1.remaining * MsPerSec]

ResumeRun(s, t) ==
    LET s1 == [s EXCEPT !.paused = FALSE]
        s2 == [s1 EXCEPT !.phaseEndAt = t + s1.remaining * MsPerSec]
    IN  TickLoop(s2, t)

(* Fault: resetAll() without stopTimer() *)
ResetSession_noStopTimer(s) ==
    [s EXCEPT !.running = FALSE, !.paused = FALSE, !.phaseEndAt = 0,
              !.phase = "IDLE", !.currentRound = 0, !.remaining = 0,
              !.phaseDuration = 0, !.cfgRun = Null, !.entered = << >>,
              !.warned = << >>, !.owed = 0]

(* Fault: resetAll() leaves currentRound as it is *)
ResetSession_keepsRound(s) ==
    LET s1 == StopTimer(s)
    IN  [s1 EXCEPT !.running = FALSE, !.paused = FALSE, !.phaseEndAt = 0,
                   !.phase = "IDLE", !.remaining = 0, !.phaseDuration = 0,
                   !.cfgRun = Null, !.entered = << >>, !.warned = << >>,
                   !.owed = 0]

(* resetAll(), the session variables *)
ResetSession(s) ==
    LET s1 == StopTimer(s)
    IN  [s1 EXCEPT !.running = FALSE, !.paused = FALSE, !.phaseEndAt = 0,
                   !.phase = "IDLE", !.currentRound = 0, !.remaining = 0,
                   !.phaseDuration = 0, !.cfgRun = Null, !.entered = << >>,
                   !.warned = << >>, !.owed = 0]

----------------------------------------------------------------------------
(* The handlers *)

Commit(s) ==
    /\ timerId' = s.timerId
    /\ intervals' = s.intervals
    /\ running' = s.running
    /\ paused' = s.paused
    /\ phaseEndAt' = s.phaseEndAt
    /\ phase' = s.phase
    /\ totalRounds' = s.totalRounds
    /\ currentRound' = s.currentRound
    /\ remaining' = s.remaining
    /\ phaseDuration' = s.phaseDuration
    /\ cfgRun' = s.cfgRun
    /\ cues' = s.cues
    /\ entered' = s.entered
    /\ warned' = s.warned
    /\ owed' = s.owed

(* saveConfig(): an invalid form is not saved *)
SaveConfig(st, f) ==
    LET cfg == ReadConfigFromUI(f)
    IN  IF ~cfg.ok THEN st ELSE cfg.value

(* Fault: the change listener without if (running) return *)
ChangeListener_alwaysSaves(s, st, f) == SaveConfig(st, f)

(* The change listener of the form fields *)
ChangeListener(s, st, f) == IF s.running THEN st ELSE SaveConfig(st, f)

Init ==
    /\ now = 0
    /\ form \in FormValues
    /\ timerId = 0
    /\ intervals = 0
    /\ running = FALSE
    /\ paused = FALSE
    /\ phaseEndAt = 0
    /\ phase = "IDLE"
    /\ totalRounds = DefaultRounds
    /\ currentRound = 0
    /\ remaining = 0
    /\ phaseDuration = 0
    /\ cfgRun = Null
    /\ cues = << >>
    /\ alertMsg = ""
    /\ op = "load"
    /\ entered = << >>
    /\ sincePause = { }
    /\ stored = Null
    /\ warned = << >>
    /\ owed = 0

(* sincePause after a handler other than the pause button's *)
Interrupted == IF running /\ paused THEN sincePause \cup { "handler" } ELSE { }

(* Fault: start() without its first line, if (running) return *)
Start_noRunningGuard ==
    /\ LET cfg == ReadConfigFromUI(form)
       IN  IF ~cfg.ok
           THEN /\ Commit(Session)
                /\ alertMsg' = cfg.error
                /\ op' = "startRejected"
           ELSE /\ Commit(StartRun(Session, cfg.value, form, now))
                /\ alertMsg' = ""
                /\ op' = "start"
    /\ sincePause' = Interrupted
    /\ UNCHANGED << now, form, stored >>

(* btnStart click *)
Start ==
    /\ IF running
       THEN /\ Commit(Session)
            /\ alertMsg' = ""
            /\ op' = "startIgnored"
       ELSE LET cfg == ReadConfigFromUI(form)
            IN  IF ~cfg.ok
                THEN /\ Commit(Session)
                     /\ alertMsg' = cfg.error
                     /\ op' = "startRejected"
                ELSE /\ Commit(StartRun(Session, cfg.value, form, now))
                     /\ alertMsg' = ""
                     /\ op' = "start"
    /\ sincePause' = Interrupted
    /\ UNCHANGED << now, form, stored >>

(* btnPause click *)
TogglePause ==
    /\ IF ~running
       THEN /\ Commit(Session)
            /\ op' = "toggleIgnored"
            /\ sincePause' = { }
       ELSE IF ~paused
            THEN /\ Commit(PauseRun(Session, now))
                 /\ op' = "pause"
                 /\ sincePause' = { }
            ELSE /\ Commit(ResumeRun(Session, now))
                 /\ op' = "resume"
                 /\ sincePause' = sincePause
    /\ alertMsg' = ""
    /\ UNCHANGED << now, form, stored >>

(* btnReset click *)
ResetAll ==
    /\ Commit(ResetSession(Session))
    /\ alertMsg' = ""
    /\ op' = "reset"
    /\ sincePause' = { }
    /\ UNCHANGED << now, form, stored >>

(* The interval timer fires: only a live interval calls the callback *)
Tick ==
    /\ intervals > 0
    /\ Commit(TickCallback(Session, form, now))
    /\ alertMsg' = ""
    /\ op' = "tick"
    /\ sincePause' = Interrupted
    /\ UNCHANGED << now, form, stored >>

(* The callback of an interval that was cancelled runs all the same (it    *)
(* was already queued when clearInterval() was called)                     *)
StaleTick ==
    /\ intervals = 0
    /\ Commit(TickCallback(Session, form, now))
    /\ alertMsg' = ""
    /\ op' = "staleTick"
    /\ sincePause' = Interrupted
    /\ UNCHANGED << now, form, stored >>

(* A form field changes; the change listener returns at once while running *)
Change ==
    /\ \E f \in FormValues \ { form } :
          /\ form' = f
          /\ stored' = ChangeListener(Session, stored, f)
    /\ Commit(Session)
    /\ alertMsg' = ""
    /\ op' = "change"
    /\ sincePause' = Interrupted
    /\ UNCHANGED << now >>

(* Time passes between two handlers *)
Advance ==
    /\ \E d \in ClockSteps :
          /\ now + d <= MaxNow
          /\ now' = now + d
    /\ sincePause' = IF running /\ paused THEN sincePause \cup { "clock" }
                      ELSE sincePause
    /\ owed' = IF running /\ ~paused THEN Max(0, owed - (now' - now)) ELSE owed
    /\ UNCHANGED << form, timerId, intervals, running, paused, phaseEndAt, phase,
                    totalRounds, currentRound, remaining, phaseDuration, cfgRun,
                    cues, alertMsg, op, entered, stored, warned >>

Next ==
    \/ Start
    \/ TogglePause
    \/ ResetAll
    \/ Tick
    \/ StaleTick
    \/ Change
    \/ Advance

Spec == Init /\ [][Next]_vars

----------------------------------------------------------------------------
(* A run whose ticks fire every 250 ms without delay: the clock advances   *)
(* by one tick interval at a time and a live interval runs its callback at *)
(* once; the buttons are pressed between two ticks. The forms have phases  *)
(* shorter than, as long as and longer than the warning window.            *)

SteadyForms ==
    { BaseForm } \cup
    { [BaseForm EXCEPT !.rounds = Num(1), !.work = Num(w)] : w \in 2 .. WarnWindow + 1 }

InitSteady ==
    /\ now = 0
    /\ form \in SteadyForms
    /\ timerId = 0
    /\ intervals = 0
    /\ running = FALSE
    /\ paused = FALSE
    /\ phaseEndAt = 0
    /\ phase = "IDLE"
    /\ totalRounds = DefaultRounds
    /\ currentRound = 0
    /\ remaining = 0
    /\ phaseDuration = 0
    /\ cfgRun = Null
    /\ cues = << >>
    /\ alertMsg = ""
    /\ op = "load"
    /\ entered = << >>
    /\ sincePause = { }
    /\ stored = Null
    /\ warned = << >>
    /\ owed = 0

SteadyStep ==
    /\ now + TickMs <= MaxNow
    /\ now' = now + TickMs
    /\ IF intervals > 0
       THEN /\ Commit(TickCallback([Session EXCEPT !.owed = Max(0, @ - TickMs)],
                                    form, now + TickMs))
            /\ alertMsg' = ""
            /\ op' = "tick"
            /\ sincePause' = { }
       ELSE /\ sincePause' = IF running /\ paused
                             THEN sincePause \cup { "clock" } ELSE sincePause
            /\ UNCHANGED << timerId, intervals, running, paused, phaseEndAt,
                            phase, totalRounds, currentRound, remaining,
                            phaseDuration, cfgRun, cues, alertMsg, op, entered,
                            warned, owed >>
    /\ UNCHANGED << form, stored >>

NextSteady ==
    \/ Start
    \/ TogglePause
    \/ ResetAll
    \/ SteadyStep

SpecSteady == InitSteady /\ [][NextSteady]_vars

----------------------------------------------------------------------------
(* A run under fair scheduling, with a clock that never stops. The program *)
(* reads the clock only as phaseEndAt - Date.now() (syncRemainingFromClock *)
(* and the pause branch) and writes it only as Date.now() + seconds, so    *)
(* the passing of one tick interval is represented by moving the epoch:    *)
(* now stays and phaseEndAt comes one interval closer. Time that passes    *)
(* while the session is paused or stopped, or after phaseEndAt is reached, *)
(* changes nothing the program can read and is a stuttering step. The      *)
(* form is valid and is not edited, and resetAll() is not called.          *)

InitLive ==
    /\ now = 0
    /\ form \in ValidForms
    /\ timerId = 0
    /\ intervals = 0
    /\ running = FALSE
    /\ paused = FALSE
    /\ phaseEndAt = 0
    /\ phase = "IDLE"
    /\ totalRounds = DefaultRounds
    /\ currentRound = 0
    /\ remaining = 0
    /\ phaseDuration = 0
    /\ cfgRun = Null
    /\ cues = << >>
    /\ alertMsg = ""
    /\ op = "load"
    /\ entered = << >>
    /\ sincePause = { }
    /\ stored = Null
    /\ warned = << >>
    /\ owed = 0

LiveAdvance ==
    /\ running /\ ~paused
    /\ phaseEndAt > now
    /\ phaseEndAt' = phaseEndAt - TickMs
    /\ owed' = Max(0, owed - TickMs)
    /\ UNCHANGED << now, form, timerId, intervals, running, paused, phase,
                    totalRounds, currentRound, remaining, phaseDuration, cfgRun,
                    cues, alertMsg, op, entered, sincePause, stored, warned >>

(* btnPause click on a paused session *)
Resume == paused /\ TogglePause

NextLive ==
    \/ Start
    \/ TogglePause
    \/ Tick
    \/ LiveAdvance

(* Strong fairness of the interval callback: if an interval is live again  *)
(* and again, the callback runs again and again.                           *)
TickFairness == ([]<>(intervals > 0)) => []<><<Tick>>_vars

(* The clock keeps advancing, the callback keeps firing while an interval  *)
(* is live, and every pause is followed by a resume.                       *)
SpecLive ==
    /\ InitLive
    /\ [][NextLive]_vars
    /\ SF_vars(LiveAdvance)
    /\ TickFairness
    /\ WF_vars(Resume)

----------------------------------------------------------------------------
(* Properties *)

(* The entries of this run's log that are WORK entries, up to position i *)
RoundAt(i) == Cardinality({ j \in 1..i : entered[j] = "WORK" })

WorkEntries == RoundAt(Len(entered))

Last(q) == q[Len(q)]

(* C1: over a full run (start() until DONE, with any interleaving of ticks, *)
(* clock advances, pauses and resumes, and no reset) WORK is entered       *)
(* exactly totalRounds times: never more during the run, and exactly that  *)
(* many once the run is DONE.                                              *)
C1_WorkEntriesEqualTotalRounds ==
    /\ WorkEntries <= totalRounds
    /\ phase = "DONE" => WorkEntries = totalRounds

C1_Witness ==
    /\ phase = "DONE"
    /\ op = "tick"
    /\ totalRounds = 3
    /\ WorkEntries = 3

(* C2: currentRound counts the WORK entries of the run: it is the number of *)
(* WORK entries so far (so it grows by exactly 1 on each WORK entry, a      *)
(* direct WORK -> WORK entry included), a step that enters no phase and a   *)
(* step that enters another phase leave it unchanged, and from the last     *)
(* WORK entry on (COOLDOWN, DONE) it equals totalRounds.                    *)
C2_RoundCountsWorkEntries ==
    [][ /\ currentRound' = RoundAt(Len(entered))'
        /\ (entered' = entered => currentRound' = currentRound)
        /\ \A ph \in { "WARMUP", "REST1", "REST2", "COOLDOWN", "DONE" } :
              entered' = Append(entered, ph) => currentRound' = currentRound
        /\ entered' = Append(entered, "WORK") => currentRound' = currentRound + 1
        /\ (phase' \in { "COOLDOWN", "DONE" } => currentRound' = totalRounds')
      ]_vars

C2_Witness ==
    /\ phase = "WORK"
    /\ Len(entered) >= 2
    /\ entered[Len(entered) - 1] = "WORK"
    /\ currentRound = 2
    /\ currentRound = totalRounds
    /\ op = "tick"

(* The rest the config asks for after round r *)
RestAfter(cfg, r) ==
    IF cfg.rest2 > 0 /\ cfg.rest2Every > 0 /\ r % cfg.rest2Every = 0 THEN "REST2"
    ELSE IF cfg.rest1 > 0 THEN "REST1"
    ELSE "WORK"

(* C3: in the log of a run, a WORK entry of round r < totalRounds is        *)
(* followed by REST2 if rest2 > 0, rest2Every > 0 and r mod rest2Every = 0, *)
(* otherwise by REST1 if rest1 > 0, otherwise by WORK; REST1 and REST2 are  *)
(* followed by WORK.                                                        *)
C3_RestSelection ==
    \A i \in 1..(Len(entered) - 1) :
        /\ (entered[i] = "WORK" /\ RoundAt(i) < totalRounds)
              => entered[i + 1] = RestAfter(cfgRun, RoundAt(i))
        /\ entered[i] \in { "REST1", "REST2" } => entered[i + 1] = "WORK"

C3_Witness ==
    /\ cfgRun # Null
    /\ cfgRun.rest1 > 0
    /\ cfgRun.rest2 > 0
    /\ cfgRun.rest2Every = 2
    /\ entered = << "WORK", "REST1", "WORK", "REST2", "WORK", "DONE" >>

(* C4: the first phase of a run is WARMUP if warmup > 0 and WORK otherwise; *)
(* a WORK entry of round r >= totalRounds is followed by COOLDOWN if        *)
(* cooldown > 0 and by DONE otherwise; COOLDOWN is followed by DONE; a run  *)
(* with warmup 0 and cooldown 0 that is DONE entered only WORK and rest     *)
(* phases and then DONE.                                                    *)
C4_FirstAndLastPhases ==
    /\ Len(entered) >= 1 =>
          /\ entered[1] = (IF cfgRun.warmup > 0 THEN "WARMUP" ELSE "WORK")
          /\ entered[1] = "WORK" => RoundAt(1) = 1
    /\ \A i \in 1..(Len(entered) - 1) :
          /\ (entered[i] = "WORK" /\ RoundAt(i) >= totalRounds)
                => entered[i + 1] = (IF cfgRun.cooldown > 0 THEN "COOLDOWN" ELSE "DONE")
          /\ entered[i] = "COOLDOWN" => entered[i + 1] = "DONE"
    /\ (phase = "DONE" /\ cfgRun.warmup = 0 /\ cfgRun.cooldown = 0)
          => /\ entered[1] = "WORK"
             /\ Last(entered) = "DONE"
             /\ \A i \in 1..Len(entered) : entered[i] \notin { "WARMUP", "COOLDOWN" }
             /\ WorkEntries = totalRounds

C4_Witness ==
    /\ cfgRun # Null
    /\ cfgRun.warmup > 0
    /\ cfgRun.cooldown > 0
    /\ entered = << "WARMUP", "WORK", "WORK", "COOLDOWN", "DONE" >>

(* The seconds the config gives a phase *)
PhaseSeconds(cfg, ph) ==
    CASE ph = "WARMUP" -> cfg.warmup
      [] ph = "WORK" -> cfg.work
      [] ph = "REST1" -> cfg.rest1
      [] ph = "REST2" -> cfg.rest2
      [] ph = "COOLDOWN" -> cfg.cooldown
      [] OTHER -> 0

(* The configured schedule: the phase, and its round, that follows phase   *)
(* ph of round r                                                           *)
ScheduleNext(cfg, ph, r) ==
    CASE ph = "WARMUP" -> [ phase |-> "WORK", round |-> r + 1 ]
      [] ph = "WORK" ->
           IF r >= cfg.rounds
           THEN [ phase |-> IF cfg.cooldown > 0 THEN "COOLDOWN" ELSE "DONE",
                  round |-> r ]
           ELSE [ phase |-> RestAfter(cfg, r),
                  round |-> IF RestAfter(cfg, r) = "WORK" THEN r + 1 ELSE r ]
      [] ph \in { "REST1", "REST2" } -> [ phase |-> "WORK", round |-> r + 1 ]
      [] ph = "COOLDOWN" -> [ phase |-> "DONE", round |-> r ]
      [] OTHER -> [ phase |-> ph, round |-> r ]

(* Where the configured schedule stands at time t, when phase ph of round  *)
(* r ends at endAt and every later phase starts as the one before it ends: *)
(* the phase that contains t and the number of phase boundaries crossed.   *)
RECURSIVE ScheduleAt(_, _, _, _, _)
ScheduleAt(cfg, ph, r, endAt, t) ==
    IF ph \in { "IDLE", "DONE" } \/ t < endAt
    THEN [ phase |-> ph, round |-> r, crossed |-> 0 ]
    ELSE LET n == ScheduleNext(cfg, ph, r)
             rest == ScheduleAt(cfg, n.phase, n.round,
                                endAt + PhaseSeconds(cfg, n.phase) * MsPerSec, t)
         IN  [rest EXCEPT !.crossed = @ + 1]

Transitions(q) == Cardinality({ i \in DOMAIN q : q[i].kind = "transition" })

(* C5 (as claimed): a tick callback that runs when the clock has passed N  *)
(* phase boundaries of the configured schedule enters N phases, each with  *)
(* its transition cue, and leaves the session in the phase of the schedule *)
(* that contains the current time.                                         *)
C5_CatchUpReachesScheduledPhase ==
    [][ (Tick /\ running /\ ~paused) =>
           LET at == ScheduleAt(cfgRun, phase, currentRound, phaseEndAt, now)
           IN  /\ Len(entered') = Len(entered) + at.crossed
               /\ Transitions(cues') = at.crossed
               /\ phase' = at.phase
               /\ currentRound' = at.round
      ]_vars

(* C6: a pause freezes the countdown.  From a paused session, every step    *)
(* that does not end the run (the clock advancing, a form edit, the resume) *)
(* leaves remaining, phase and currentRound as the pause left them; so      *)
(* right after the resume remaining is the value snapshotted at the pause,  *)
(* however far the clock advanced meanwhile, and the resume sets phaseEndAt *)
(* that many seconds ahead.                                                 *)
C6_PauseFreezesCountdown ==
    [][ /\ (running /\ paused /\ running') =>
              /\ remaining' = remaining
              /\ phase' = phase
              /\ currentRound' = currentRound
        /\ (TogglePause /\ running /\ ~paused) =>
              /\ paused'
              /\ remaining' = RemainingAt(phaseEndAt, now)
              /\ phase' = phase
              /\ currentRound' = currentRound
        /\ (TogglePause /\ running /\ paused) =>
              /\ ~paused'
              /\ phaseEndAt' = now + remaining * MsPerSec
      ]_vars

C6_Witness ==
    /\ op = "resume"
    /\ "clock" \in sincePause
    /\ running /\ ~paused
    /\ remaining = 2
    /\ phaseEndAt = now + 2 * MsPerSec
    /\ phaseDuration = 2

(* C7: the config of a run is frozen.  While the session is running or      *)
(* paused cfgRun and totalRounds do not change, whatever the form holds;    *)
(* the duration of every phase entered, the phase chosen at every           *)
(* transition, the round count and the sound / vibrate flags of every cue   *)
(* are those of cfgRun.                                                     *)
C7_ConfigFrozen ==
    [][ /\ (running /\ running') => (cfgRun' = cfgRun /\ totalRounds' = totalRounds)
        /\ running' =>
              /\ totalRounds' = cfgRun'.rounds
              /\ phaseDuration' = PhaseSeconds(cfgRun', phase')
        /\ (running /\ entered' = Append(entered, phase')) =>
              /\ phase' = ScheduleNext(cfgRun, phase, currentRound).phase
              /\ phaseDuration' = PhaseSeconds(cfgRun, phase')
        /\ \A i \in DOMAIN cues' :
              /\ cues'[i].sound = cfgRun'.sound
              /\ cues'[i].vibrate = cfgRun'.vibrate
      ]_vars

C7_Witness ==
    /\ running
    /\ op = "tick"
    /\ phase = "WORK"
    /\ currentRound = 2
    /\ Len(cues) = 1
    /\ ReadConfigFromUI(form).ok
    /\ FormValue(form).work # cfgRun.work
    /\ FormValue(form).sound # cfgRun.sound
    /\ FormValue(form).rest2Every # cfgRun.rest2Every
    /\ phaseDuration = cfgRun.work

(* The fields of a config that are out of range *)
OutOfRange(v) ==
    { k \in { "rounds", "work" } : v[k] < 1 }
        \cup { k \in { "warmup", "rest1", "rest2", "cooldown", "rest2Every" } : v[k] < 0 }

sessionVars == << timerId, intervals, running, paused, phaseEndAt, phase,
                  totalRounds, currentRound, remaining, phaseDuration, cfgRun >>

(* C8: start() with a form that has a field out of range reports an error   *)
(* and leaves the session as it was: phase, currentRound, remaining,        *)
(* phaseDuration, phaseEndAt, running, paused, cfgRun, totalRounds and the  *)
(* timer are unchanged, the run's log is unchanged and no cue is emitted.   *)
C8_RejectedStartChangesNothing ==
    [][ (Start /\ ~running /\ OutOfRange(FormValue(form)) # { }) =>
           /\ alertMsg' # ""
           /\ op' = "startRejected"
           /\ UNCHANGED sessionVars
           /\ UNCHANGED entered
           /\ cues' = << >>
      ]_vars

C8_Witness ==
    /\ op = "startRejected"
    /\ alertMsg # ""
    /\ phase = "DONE"
    /\ currentRound = 3
    /\ cfgRun # Null
    /\ FormValue(form).rounds < 1

(* The fields an error message names *)
NamedIn(msg) ==
    CASE msg = ErrRounds -> { "rounds" }
      [] msg = ErrWork -> { "work" }
      [] msg = ErrRest2Every -> { "rest2Every" }
      [] OTHER -> { }

(* C9 (as claimed): the error of a rejected start() names every field of   *)
(* the form that is out of range.                                          *)
C9_ErrorNamesEveryField ==
    op = "startRejected" => OutOfRange(FormValue(form)) \subseteq NamedIn(alertMsg)

(* C9 (amended): the error of a rejected start() is one message, that of   *)
(* the first check that fails in the order rounds < 1, work < 1, a        *)
(* negative warmup / rest1 / rest2 / cooldown (one message for the four,  *)
(* naming none of them), rest2Every < 0; it names at most one field, and  *)
(* that field is out of range.                                             *)
C9_ErrorIsFirstFailedCheck ==
    op = "startRejected" =>
        LET v == FormValue(form)
            bad == OutOfRange(v)
        IN  /\ bad # { }
            /\ "rounds" \in bad => alertMsg = ErrRounds
            /\ ("rounds" \notin bad /\ "work" \in bad) => alertMsg = ErrWork
            /\ (bad \cap { "rounds", "work" } = { }
                   /\ bad \cap { "warmup", "rest1", "rest2", "cooldown" } # { })
                  => alertMsg = ErrNegative
            /\ bad = { "rest2Every" } => alertMsg = ErrRest2Every
            /\ NamedIn(alertMsg) \subseteq bad
            /\ Cardinality(NamedIn(alertMsg)) <= 1

C9_Witness ==
    /\ op = "startRejected"
    /\ alertMsg = ErrRounds
    /\ OutOfRange(FormValue(form)) = { "rounds", "work", "rest1" }

(* C10 (as claimed): togglePause() invoked twice in a row on a running     *)
(* session leaves it as one invocation does: paused, with the same         *)
(* remaining, phase and currentRound, and no tick timer.                   *)
C10_SecondToggleKeepsPaused ==
    [][ (TogglePause /\ op = "pause" /\ sincePause = { }) =>
           /\ paused'
           /\ remaining' = remaining
           /\ phase' = phase
           /\ currentRound' = currentRound
           /\ timerId' = 0
           /\ intervals' = 0
      ]_vars

(* C10 (amended): togglePause() is a toggle.  Invoked twice in a row on a  *)
(* running session, the first call pauses it (paused, no tick timer) and   *)
(* the second resumes it: running, not paused, exactly one tick timer, and *)
(* remaining, phase and currentRound as they were after the first call.    *)
C10_SecondToggleResumes ==
    [][ /\ (TogglePause /\ running /\ ~paused) =>
              /\ op' = "pause"
              /\ running' /\ paused'
              /\ timerId' = 0
              /\ intervals' = 0
        /\ (TogglePause /\ op = "pause" /\ sincePause = { }) =>
              /\ op' = "resume"
              /\ running' /\ ~paused'
              /\ timerId' # 0
              /\ intervals' = 1
              /\ remaining' = remaining
              /\ phase' = phase
              /\ currentRound' = currentRound
      ]_vars

C10_Witness ==
    /\ op = "resume"
    /\ sincePause = { }
    /\ running /\ ~paused
    /\ intervals = 1
    /\ remaining >= 1

----------------------------------------------------------------------------
(* C11: resetAll() from any reachable state (running, paused, done or      *)
(* idle) leaves phase IDLE, currentRound, remaining, phaseDuration and     *)
(* phaseEndAt 0, running and paused false, no frozen config and no active  *)
(* timer; on an idle session it changes no session variable.               *)
C11_ResetYieldsInitialSession ==
    [][ ResetAll =>
          /\ phase' = "IDLE"
          /\ currentRound' = 0
          /\ remaining' = 0
          /\ phaseDuration' = 0
          /\ phaseEndAt' = 0
          /\ ~running'
          /\ ~paused'
          /\ cfgRun' = Null
          /\ timerId' = 0
          /\ intervals' = 0
          /\ (phase = "IDLE" => UNCHANGED sessionVars) ]_vars

(* A reset that ended a session in progress: the clock has moved, a run   *)
(* had applied its config, and the session is back to the initial values. *)
C11_Witness ==
    /\ op = "reset"
    /\ now > 0
    /\ totalRounds = 3
    /\ phase = "IDLE"
    /\ intervals = 0

----------------------------------------------------------------------------
(* C12: start() while the session is running (paused or not) changes no    *)
(* session variable and emits no cue; togglePause() while the session is   *)
(* stopped (idle or done) changes no session variable.                     *)
C12_WrongStateNoOps ==
    [][ /\ (Start /\ running) =>
              /\ UNCHANGED sessionVars
              /\ UNCHANGED << entered, warned, stored >>
              /\ cues' = << >>
        /\ (TogglePause /\ ~running) =>
              /\ UNCHANGED sessionVars
              /\ UNCHANGED << entered, warned, stored >>
              /\ cues' = << >> ]_vars

(* start() was pressed on a paused session in the middle of a rest *)
C12_Witness ==
    /\ op = "startIgnored"
    /\ running /\ paused
    /\ phase = "REST1"
    /\ remaining >= 1

----------------------------------------------------------------------------
(* C13: a tick callback that runs while the session is paused or stopped   *)
(* (the callback of an interval already cancelled by pause, reset or DONE) *)
(* changes no session variable and emits no cue, however far the clock has *)
(* advanced.                                                               *)
C13_StaleTickHarmless ==
    [][ ((Tick \/ StaleTick) /\ (~running \/ paused)) =>
            /\ UNCHANGED sessionVars
            /\ UNCHANGED << entered, warned, stored >>
            /\ cues' = << >> ]_vars

(* The callback ran on a paused session whose phase end the clock had     *)
(* already passed by a second or more.                                    *)
C13_Witness ==
    /\ op = "staleTick"
    /\ running /\ paused
    /\ remaining >= 1
    /\ now >= phaseEndAt + MsPerSec

----------------------------------------------------------------------------
(* C14: in every reachable state at most one interval timer is live, and   *)
(* one is live exactly when the session is running and not paused; the     *)
(* handle timerId is set exactly then.                                     *)
C14_SingleTimer ==
    /\ intervals <= 1
    /\ (intervals = 1) <=> (running /\ ~paused)
    /\ (timerId # 0) <=> (intervals = 1)

(* A session resumed after a pause: the timer was set, cancelled and set   *)
(* again.                                                                  *)
C14_Witness ==
    /\ op = "resume"
    /\ intervals = 1
    /\ running /\ ~paused
    /\ now > 0

----------------------------------------------------------------------------
(* C15: signalStrong() is called exactly once for every phase entry (the   *)
(* first phase entered by start(), every entry made by a tick, a WORK      *)
(* entered directly from WORK, DONE) and at no other time: a step emits    *)
(* as many transition cues as it enters phases, so none on a tick that     *)
(* changes no phase, on pause, resume, reset or a form change. (A step     *)
(* that leaves the clock alone is the step of one handler, named by op.)   *)
C15_OneTransitionCuePerEntry ==
    [][ (now' = now) =>
          CASE op' = "start" ->
                 /\ Len(entered') = 1
                 /\ Transitions(cues') = 1
            [] op' \in { "tick", "staleTick" } ->
                 /\ Len(entered') >= Len(entered)
                 /\ Transitions(cues') = Len(entered') - Len(entered)
            [] OTHER -> Transitions(cues') = 0
      ]_vars

(* A tick entered WORK directly from WORK (no rest configured) and        *)
(* emitted one transition cue.                                            *)
C15_Witness ==
    /\ op = "tick"
    /\ entered = << "WARMUP", "WORK", "WORK" >>
    /\ Transitions(cues) = 1

----------------------------------------------------------------------------
(* The number of times v occurs in the sequence q *)
Occurrences(q, v) == Cardinality({ i \in DOMAIN q : q[i] = v })

(* << k, k - 1, ..., 1 >> *)
CountDown(k) == [ i \in 1 .. k |-> k + 1 - i ]

Min(a, b) == IF a <= b THEN a ELSE b

(* A step in which a tick leaves a timed phase *)
LeavesTimedPhase == Len(entered') > Len(entered) /\ phaseDuration > 0

(* C16 (as claimed): in a run whose ticks fire every 250 ms without delay, *)
(* when a timed phase ends a warn cue has been emitted exactly once for    *)
(* each remaining value in 1 .. min(3, phase duration).                    *)
C16_WarnForEachWindowValue ==
    [][ LeavesTimedPhase =>
          \A v \in 1 .. Min(WarnWindow, phaseDuration) :
              Occurrences(warned, v) = 1 ]_vars

(* C16 (amended): in a run whose ticks fire every 250 ms without delay,    *)
(* when a timed phase ends the warn cues emitted during it are those of    *)
(* the remaining values min(3, phase duration - 1) down to 1, once each    *)
(* and in that order (none for the phase duration itself, so none at all   *)
(* in a phase of 1 second), and no value is ever warned twice, also when   *)
(* the phase is paused and resumed inside the warning window.              *)
C16_WarnBelowDuration ==
    [][ /\ \A v \in 1 .. WarnWindow : Occurrences(warned', v) <= 1
        /\ LeavesTimedPhase =>
              warned = CountDown(Min(WarnWindow, phaseDuration - 1)) ]_vars

(* A phase of 4 seconds was paused inside the warning window, after the   *)
(* cues for 3 and 2, and has just been resumed.                           *)
C16_Witness ==
    /\ op = "resume"
    /\ phaseDuration = WarnWindow + 1
    /\ warned = << 3, 2 >>
    /\ remaining = 2

----------------------------------------------------------------------------
(* C17: the step that enters DONE leaves running and paused false, the     *)
(* timer cancelled and remaining, phaseDuration and phaseEndAt 0, and so   *)
(* does every later step while the phase is DONE; a tick callback in DONE  *)
(* changes no session variable; DONE is left only by a start() that begins *)
(* a new run or by resetAll().                                             *)
C17_DoneStopsSession ==
    [][ /\ (phase' = "DONE") =>
              /\ ~running' /\ ~paused'
              /\ timerId' = 0 /\ intervals' = 0
              /\ remaining' = 0 /\ phaseDuration' = 0 /\ phaseEndAt' = 0
        /\ (phase = "DONE" /\ now' = now /\ op' \in { "tick", "staleTick" }) =>
              /\ UNCHANGED sessionVars
              /\ cues' = << >>
        /\ (phase = "DONE" /\ phase' # "DONE") =>
              /\ now' = now
              /\ op' \in { "start", "reset" } ]_vars

(* The interval callback ran once more after the last phase of a whole    *)
(* run had ended in DONE.                                                 *)
C17_Witness ==
    /\ phase = "DONE"
    /\ op = "staleTick"
    /\ Len(entered) >= 2
    /\ Last(entered) = "DONE"
    /\ currentRound = totalRounds

----------------------------------------------------------------------------
(* C18 (as claimed): a change event while the session is running or paused *)
(* leaves the stored record unchanged, and a change event while it is not  *)
(* running saves the current form snapshot.                                *)
C18_ChangeSavesWhenNotRunning ==
    [][ (form' # form) =>
          IF running THEN stored' = stored
          ELSE stored' = FormValue(form') ]_vars

(* C18 (amended): the stored record is written only by a change event that *)
(* occurs while the session is not running and whose form is valid, which  *)
(* saves the parsed config of that form; a change event while running or   *)
(* paused, a change event with an invalid form, and every other step leave *)
(* the stored record unchanged.                                            *)
C18_ChangeSavesValidWhenNotRunning ==
    [][ IF form' # form /\ ~running /\ ReadConfigFromUI(form').ok
        THEN stored' = FormValue(form')
        ELSE stored' = stored ]_vars

(* A valid form was entered during a run, and the stored record is still  *)
(* the one of an earlier save.                                            *)
C18_Witness ==
    /\ op = "change"
    /\ running
    /\ ReadConfigFromUI(form).ok
    /\ stored # Null
    /\ stored # FormValue(form)

----------------------------------------------------------------------------
(* C19: in every reachable state 0 <= currentRound <= totalRounds;         *)
(* currentRound is 0 exactly when the phase is IDLE or WARMUP, it is in    *)
(* 1 .. totalRounds in WORK, REST1 and REST2, and it equals totalRounds in *)
(* COOLDOWN and DONE.                                                      *)
C19_RoundBounds ==
    /\ 0 <= currentRound /\ currentRound <= totalRounds
    /\ (currentRound = 0) <=> (phase \in { "IDLE", "WARMUP" })
    /\ (phase \in { "WORK", "REST1", "REST2" }) => currentRound \in 1 .. totalRounds
    /\ (phase \in { "COOLDOWN", "DONE" }) => currentRound = totalRounds

(* The cool-down of a run of two rounds, after a warm-up *)
C19_Witness ==
    /\ phase = "COOLDOWN"
    /\ totalRounds = 2
    /\ currentRound = 2
    /\ entered[1] = "WARMUP"

----------------------------------------------------------------------------
(* render(): the numerator of the progress fraction                        *)
(* (phaseDuration - remaining) / phaseDuration                             *)
ProgressNumerator == phaseDuration - remaining

(* C20: with a clock that never goes backwards, in every reachable state   *)
(* 0 <= remaining <= phaseDuration, so the progress fraction of a timed    *)
(* phase lies in [0, 1].                                                   *)
C20_RemainingWithinDuration ==
    /\ 0 <= remaining /\ remaining <= phaseDuration
    /\ (phaseDuration > 0) =>
          (0 <= ProgressNumerator /\ ProgressNumerator <= phaseDuration)

(* A session paused when the clock had already passed the end of the      *)
(* phase: remaining is held at 0, not below.                              *)
C20_Witness ==
    /\ op = "pause"
    /\ now > phaseEndAt
    /\ remaining = 0
    /\ phaseDuration >= 1

----------------------------------------------------------------------------
(* The sequencer's order for a config: the phases from ph of round r to    *)
(* DONE                                                                    *)
RECURSIVE OrderFrom(_, _, _)
OrderFrom(cfg, ph, r) ==
    IF ph = "DONE" THEN << "DONE" >>
    ELSE LET n == ScheduleNext(cfg, ph, r)
         IN  << ph >> \o OrderFrom(cfg, n.phase, n.round)

PhaseOrder(cfg) ==
    IF cfg.warmup > 0 THEN OrderFrom(cfg, "WARMUP", 0) ELSE OrderFrom(cfg, "WORK", 1)

IsPrefix(p, q) == Len(p) <= Len(q) /\ SubSeq(q, 1, Len(p)) = p

(* C21: for a frozen config the phases entered since start() are, in every *)
(* reachable state (so under every schedule of ticks, delays, clock jumps, *)
(* pauses and resumes), a prefix of the one order the sequencer gives that *)
(* config, and the whole order once the run is DONE: no phase of the order *)
(* is skipped, and no phase is entered twice in a row except WORK.         *)
C21_PhaseOrderFixedByConfig ==
    cfgRun # Null =>
        /\ IsPrefix(entered, PhaseOrder(cfgRun))
        /\ phase = "DONE" => entered = PhaseOrder(cfgRun)
        /\ \A i \in 1 .. (Len(entered) - 1) :
              entered[i] = entered[i + 1] => entered[i] = "WORK"

(* A run of 3 seconds that reached DONE only when the clock stood at 5    *)
(* seconds: ticks were late or the run was paused, and the order is whole. *)
C21_Witness ==
    /\ phase = "DONE"
    /\ op = "tick"
    /\ now = MaxNow
    /\ entered = << "WORK", "REST1", "WORK", "DONE" >>
    /\ cues # << >>

----------------------------------------------------------------------------
(* C22: a tick leaves a timed phase only when the clock has reached        *)
(* phaseEndAt, and by then the un-paused clock time spent in the phase is  *)
(* at least its configured duration (nothing of it is still owed), for     *)
(* every interleaving of ticks, delays, pauses and resumes.                *)
C22_PhaseNeverCutShort ==
    [][ LeavesTimedPhase => (now >= phaseEndAt /\ owed = 0) ]_vars

(* A tick has just left a WORK phase of 1 second and entered the rest      *)
(* after it, 2 seconds after the page was loaded: the phase had been       *)
(* paused, or the tick came late.                                          *)
C22_Witness ==
    /\ op = "tick"
    /\ entered = << "WORK", "REST1" >>
    /\ owed = phaseDuration * MsPerSec
    /\ phaseEndAt = now + MsPerSec
    /\ now = 2 * MsPerSec

----------------------------------------------------------------------------
----------------------------------------------------------------------------
(* C24 (as claimed): under fairness (the clock keeps advancing, the tick   *)
(* callback keeps firing while running, every pause is followed by a       *)
(* resume, no reset) a started session eventually reaches DONE with        *)
(* running false.                                                          *)
C24_EveryRunTerminates == running ~> (phase = "DONE" /\ ~running)

(* C24 (amended): under the same fairness a started session eventually     *)
(* reaches DONE with running false, unless it is paused again and again    *)
(* without end.                                                            *)
C24_TerminatesUnlessPausedForever ==
    ([]<>paused) \/ (running ~> (phase = "DONE" /\ ~running))

(* The last tick of a whole run of three rounds has entered DONE *)
C24_Witness ==
    /\ phase = "DONE"
    /\ ~running
    /\ op = "tick"
    /\ now = 0
    /\ Len(entered) = 6

----------------------------------------------------------------------------
(* The announcement that fits a session that has just entered a phase: the *)
(* phase, with the round of a WORK phase and the seconds of a rest         *)
Announce(s) ==
    CASE s.phase = "WORK" ->
           "Proximo: Trabalho (round " \o ToString(s.currentRound) \o ")."
      [] s.phase = "REST1" ->
           "Proximo: Intervalo curto (" \o ToString(s.phaseDuration) \o "s)."
      [] s.phase = "REST2" ->
           "Proximo: Intervalo longo (" \o ToString(s.phaseDuration) \o "s)."
      [] s.phase = "COOLDOWN" -> "Proximo: Termino / Cooldown."
      [] s.phase = "DONE" -> "Proximo: Finalizar."
      [] OTHER -> ""

(* C25: in every state with the session running (paused or not) and the   *)
(* phase WARMUP, WORK, REST1, REST2 or COOLDOWN, the text of               *)
(* buildNextText() names exactly the phase nextPhase() enters from that    *)
(* state, with the round number that WORK gets or the kind and the seconds *)
(* of the rest.                                                            *)
C25_NextTextAgreesWithNextPhase ==
    (running /\ phase \in { "WARMUP", "WORK", "REST1", "REST2", "COOLDOWN" }) =>
        BuildNextText(Session, form) = Announce(NextPhase(Session, form, now))

(* A WORK phase before a long rest, while the form has been edited to     *)
(* another config than the frozen one.                                    *)
C25_Witness ==
    /\ running
    /\ phase = "WORK"
    /\ BuildNextText(Session, form) = "Proximo: Intervalo longo (1s)."
    /\ ReadConfigFromUI(form).ok
    /\ FormValue(form).rest2 = 0

====
